---- MODULE Spec2Model ----
(***************************************************************************)
(* Tag co-occurrence analytics: the graph builder                          *)
(* (src/src/graph/builder.py, TagCooccurrenceGraph) and the analyzer       *)
(* (src/src/graph/analytics.py, GraphAnalytics); and the crawler's store   *)
(* (src/src/crawler/xhs_adapter.py, JsonlStoreImplement, XhsBasicCrawler). *)
(*                                                                         *)
(* A record is a function whose domain is a subset of {"tags", "time"}:    *)
(* a key the JSON object lacks is a key outside the domain.  A tag is a    *)
(* string; a time string is a record describing its text (see IsoTime).    *)
(*                                                                         *)
(* items is self.items once the data file has been read: the data file is  *)
(* taken to hold the records of items, so that the load_data call          *)
(* build_graph and find_rising_edges make while self.items is empty        *)
(* changes nothing.  The file gains a record (AddItem) or is rewritten     *)
(* (LoadData) between calls.                                               *)
(*                                                                         *)
(* The crawler's output file is the sequence of the item_id of its lines;  *)
(* opening, reading and writing it succeed.                                *)
(*                                                                         *)
(* The packaging helpers (src/src/utils/packaging.py, deduplicate_jsonl,   *)
(* merge_jsonl_files) and the cleaner (src/src/pipeline/cleaner.py,        *)
(* DataCleaner) read JSONL files: a line is text json.loads refuses or a   *)
(* JSON object.                                                            *)
(***************************************************************************)
EXTENDS Integers, Sequences, FiniteSets, TLC

VARIABLES
    items,      \* self.items: the record collection, in file order
    graph,      \* TagCooccurrenceGraph.graph (one nx.Graph object, kept across calls)
    stats,      \* TagCooccurrenceGraph.stats (total_tags, total_edges)
    loaded,     \* the number of records the collection held at the start
    built,      \* build_graph calls so far (n, counted up to 2) and the records the latest one read (its)
    out,        \* the return value (or exception) of the latest find_rising_edges call
    out_prev,   \* the return value of the call before it, same arguments, same items
    ranked,     \* the return value of the latest compute_pagerank call on the graph as it is
    reloads,    \* load_data calls that replaced the collection by a rewritten file
    file,           \* the output file of the crawler: the item_id of each line
    seen_ids,       \* JsonlStoreImplement._seen_ids (class variable)
    instance_count, \* JsonlStoreImplement._instance_count (class variable)
    stores,         \* the JsonlStoreImplement objects made so far: append_mode, item_count
    run,            \* the latest XhsBasicCrawler.run(): where it is, start_count, return value
    pack,       \* the JSONL files merge_jsonl_files reads and writes, and what it returned
    cleaner     \* a DataCleaner object: its input file, its stats, its output file

graphVars == <<items, loaded, graph, stats, built, out, out_prev, ranked, reloads>>
crawlVars == <<file, seen_ids, instance_count, stores, run>>
toolVars == <<pack, cleaner>>
vars == <<items, loaded, graph, stats, built, out, out_prev, ranked, reloads,
          file, seen_ids, instance_count, stores, run, pack, cleaner>>

----------------------------------------------------------------------------
(* Bounds *)

\* Records appended to the collection by AddItem.
MaxItems == 2
\* Largest top_n argument tried.
MaxTopN == 2
\* JsonlStoreImplement objects made in one process.
MaxStores == 2
\* XhsBasicCrawler.run() calls in one process.
MaxRuns == 2
\* Lines in the input files of merge_jsonl_files, and in the cleaner's.
MaxLines == 3
\* DataCleaner.clean() calls on one object.
MaxCleans == 2
\* Times the data file is rewritten and read again.
MaxReloads == 1

----------------------------------------------------------------------------
(* Tags and their order *)

\* The tags in ascending str order, as sorted() compares them.
TagOrder == <<"a", "b", "c">>
Tags == {TagOrder[i] : i \in 1..Len(TagOrder)}
Rank(t) == CHOOSE i \in 1..Len(TagOrder) : TagOrder[i] = t

\* dict.get(key, default)
Get(item, key, default) == IF key \in DOMAIN item THEN item[key] ELSE default

\* sorted(tags): ascending; equal tags stay next to each other.
InsertTag(s, x) ==
    LET k == Cardinality({i \in 1..Len(s) : Rank(s[i]) <= Rank(x)})
    IN  SubSeq(s, 1, k) \o <<x>> \o SubSeq(s, k + 1, Len(s))

RECURSIVE Sorted(_)
Sorted(tags) ==
    IF tags = <<>> THEN <<>>
    ELSE InsertTag(Sorted(SubSeq(tags, 1, Len(tags) - 1)), tags[Len(tags)])

\* itertools.combinations(s, 2): every pair of positions i < j, in
\* lexicographic order of (i, j).  Equal elements at different positions give
\* separate pairs.
RECURSIVE Combinations2(_)
Combinations2(s) ==
    IF Len(s) < 2 THEN <<>>
    ELSE [j \in 1..(Len(s) - 1) |-> <<s[1], s[j + 1]>>] \o Combinations2(Tail(s))

\* self.items after a loop that sorted each record's tags with tags.sort().
ItemsSortedInPlace(its) ==
    [i \in 1..Len(its) |->
        IF "tags" \in DOMAIN its[i] THEN [its[i] EXCEPT !.tags = Sorted(@)] ELSE its[i]]

\* self.items after the loops over the records: item.get("tags", []) hands
\* out the record's own list, sorted(tags) returns a new list and leaves it
\* as it is, and nothing is assigned to a record.
ItemsAfterPairing(its) == its

----------------------------------------------------------------------------
(* collections.Counter: the keys in order of first insertion, and the counts *)

EmptyCounter == [keys |-> <<>>, cnt |-> <<>>]

\* counter[k] += 1
CounterInc(c, k) ==
    IF k \in DOMAIN c.cnt
    THEN [c EXCEPT !.cnt[k] = @ + 1]
    ELSE [keys |-> Append(c.keys, k), cnt |-> c.cnt @@ (k :> 1)]

\* for k in ks: counter[k] += 1
RECURSIVE CounterIncAll(_, _)
CounterIncAll(c, ks) ==
    IF ks = <<>> THEN c
    ELSE CounterIncAll(CounterInc(c, Head(ks)), Tail(ks))

\* counter.get(k, 0)
CounterGet(c, k) == IF k \in DOMAIN c.cnt THEN c.cnt[k] ELSE 0

\* list.sort(key=..., reverse=True) / sorted(..., reverse=True): a stable sort,
\* elements with equal keys keep their order.  gt[j, i]: key(s[j]) > key(s[i]).
StableSortDesc(s, gt) ==
    LET n == Len(s)
        Before(j, i) ==
            \/ gt[j, i]
            \/ ~gt[i, j] /\ j < i
        Pos(i) == 1 + Cardinality({j \in 1..n : Before(j, i)})
    IN  [k \in 1..n |-> s[CHOOSE i \in 1..n : Pos(i) = k]]

\* The list without the slice.
TakeAll(s, n) == s

\* s[:n] for n >= 0
Take(s, n) == SubSeq(s, 1, IF n < Len(s) THEN n ELSE Len(s))

\* The first n keys in order of first insertion, whatever their counts.
MostCommonFirstSeen(c, n) == Take(c.keys, n)

\* Counter.most_common(n): heapq.nlargest(n, items, key=count), which equals
\* sorted(items, key=count, reverse=True)[:n].
MostCommon(c, n) ==
    LET gt == [j, i \in 1..Len(c.keys) |-> c.cnt[c.keys[j]] > c.cnt[c.keys[i]]]
    IN  Take(StableSortDesc(c.keys, gt), n)

----------------------------------------------------------------------------
(* The graph builder *)

\* nx.Graph(): nodes in insertion order, their weight attribute, and the
\* weight attribute of each edge.  An edge is keyed by the tuple it was added as;
\* build_graph only adds tuples taken from a sorted list.
EmptyGraph == [nodes |-> <<>>, node_w |-> <<>>, edge_w |-> <<>>]

HasNode(g, tag) == \E i \in 1..Len(g.nodes) : g.nodes[i] = tag

\* graph.add_node(tag, weight=count): a new node is appended, a known node
\* has its attribute overwritten.
AddNode(g, tag, count) ==
    IF HasNode(g, tag)
    THEN [g EXCEPT !.node_w = IF tag \in DOMAIN @ THEN [@ EXCEPT ![tag] = count]
                              ELSE @ @@ (tag :> count)]
    ELSE [g EXCEPT !.nodes = Append(@, tag), !.node_w = @ @@ (tag :> count)]

\* graph.add_edge(tag1, tag2, weight=weight): an end point that is no node
\* yet becomes one (without a weight attribute), and the edge's attribute is set.
AddEdge(g, pair, weight) ==
    LET g1 == IF HasNode(g, pair[1]) THEN g
              ELSE [g EXCEPT !.nodes = Append(@, pair[1])]
        g2 == IF HasNode(g1, pair[2]) THEN g1
              ELSE [g1 EXCEPT !.nodes = Append(@, pair[2])]
    IN  [g2 EXCEPT
            !.edge_w = IF pair \in DOMAIN @ THEN [@ EXCEPT ![pair] = weight]
                       ELSE @ @@ (pair :> weight)]

\* The loop over self.items: records with fewer than two tags are skipped
\* before anything is counted.
RECURSIVE NodeOccurrences(_, _)
NodeOccurrences(c, its) ==
    IF its = <<>> THEN c
    ELSE LET tags == Get(Head(its), "tags", <<>>)
         IN  NodeOccurrences(IF Len(tags) < 2 THEN c ELSE CounterIncAll(c, tags),
                             Tail(its))

RECURSIVE EdgeWeights(_, _)
EdgeWeights(c, its) ==
    IF its = <<>> THEN c
    ELSE LET tags == Get(Head(its), "tags", <<>>)
         IN  EdgeWeights(IF Len(tags) < 2 THEN c
                         ELSE CounterIncAll(c, Combinations2(Sorted(tags))),
                         Tail(its))

RECURSIVE AddNodes(_, _, _)
AddNodes(g, c, ks) ==
    IF ks = <<>> THEN g
    ELSE AddNodes(AddNode(g, Head(ks), c.cnt[Head(ks)]), c, Tail(ks))

RECURSIVE AddEdges(_, _, _)
AddEdges(g, c, ks) ==
    IF ks = <<>> THEN g
    ELSE AddEdges(AddEdge(g, Head(ks), c.cnt[Head(ks)]), c, Tail(ks))

\* build_graph's effect on self.graph.
BuiltGraph(g, its) ==
    LET node_occurrences == NodeOccurrences(EmptyCounter, its)
        edge_weights == EdgeWeights(EmptyCounter, its)
    IN  AddEdges(AddNodes(g, node_occurrences, node_occurrences.keys),
                 edge_weights, edge_weights.keys)

----------------------------------------------------------------------------
(* Time strings and datetime *)

\* timedelta(days=n) in the unit datetimes are counted in here (hours).
HoursPerDay == 24

\* A time string "YYYY-MM-DD<sep>00:00:00<tz>" is described by its date (a day
\* number), its date/time separator ("T", " ", or "" for a date without a time
\* part) and its timezone designator ("", "Z" or "+08:00").  kind tells an
\* ISO-8601 string ("iso") from text that is no timestamp ("junk"), from the
\* empty string ("empty") and from None ("None").
IsoTime(day, sep, tz) == [kind |-> "iso", day |-> day, sep |-> sep, tz |-> tz]
JunkTime == [kind |-> "junk", day |-> 0, sep |-> "", tz |-> ""]
NoneTime == [kind |-> "None", day |-> 0, sep |-> "", tz |-> ""]

\* time_str.replace('Z', '+00:00').replace(' ', 'T')
Replaced(time_str) ==
    [time_str EXCEPT !.tz = IF @ = "Z" THEN "+00:00" ELSE @,
                     !.sep = IF @ = " " THEN "T" ELSE @]

\* datetime.fromisoformat accepts the date alone or date, one separator
\* character and time, followed by nothing or by "+HH:MM"; a trailing "Z" is
\* refused (before Python 3.11), as is any other text.
Parseable(s) ==
    /\ s.kind = "iso"
    /\ s.sep \in {"T", " ", ""}
    /\ s.tz \in {"", "+00:00", "+08:00"}

UtcOffset(tz) == IF tz = "+08:00" THEN 8 ELSE 0

\* The datetime fromisoformat returns: naive without a designator, aware with
\* one.  local is the wall-clock reading in hours, off the UTC offset.
FromIsoFormat(s) ==
    [aware |-> s.tz # "", local |-> s.day * HoursPerDay, off |-> UtcOffset(s.tz)]

\* What datetimes of one kind are compared by: the reading of a naive one, the
\* UTC instant of an aware one.
Instant(dt) == dt.local - dt.off

\* dt - timedelta(days=n)
MinusDays(dt, n) == [dt EXCEPT !.local = @ - n * HoursPerDay]

----------------------------------------------------------------------------
(* The trend analyzer *)

\* Fewer records than this in either window: fallback.
MinWindowSamples == 5

\* Lines 101-112: the records with a time that parses, as (position in
\* self.items, datetime).  A missing or empty time is skipped; a time that
\* fromisoformat refuses raises inside the try and is skipped.
RECURSIVE ItemsWithTime(_, _)
ItemsWithTime(its, i) ==
    IF i > Len(its) THEN <<>>
    ELSE LET time_str == Get(its[i], "time", NoneTime)
             rest == ItemsWithTime(its, i + 1)
         IN  IF time_str.kind \in {"None", "empty"} THEN rest
             ELSE IF ~Parseable(Replaced(time_str)) THEN rest
             ELSE <<[idx |-> i, time_obj |-> FromIsoFormat(Replaced(time_str))]>> \o rest

\* max(t for _, t in items_with_time) compares each datetime with the largest
\* so far: a naive and an aware datetime cannot be compared (TypeError).
MaxRaises(iwt) ==
    \E i, j \in 1..Len(iwt) : iwt[i].time_obj.aware # iwt[j].time_obj.aware

\* max() returns the first of the largest elements.
MaxTime(iwt) ==
    LET i == CHOOSE i \in 1..Len(iwt) :
                 /\ \A j \in 1..Len(iwt) :
                        Instant(iwt[j].time_obj) <= Instant(iwt[i].time_obj)
                 /\ \A j \in 1..(i - 1) :
                        Instant(iwt[j].time_obj) < Instant(iwt[i].time_obj)
    IN  iwt[i].time_obj

EmptyWindows ==
    [recent_edges |-> EmptyCounter, historical_edges |-> EmptyCounter,
     all_edges |-> EmptyCounter, recent_items |-> <<>>, historical_items |-> <<>>]

\* Lines 135-155, one record: the counters and the window lists after it.
\* recent_items and historical_items hold positions in self.items.
ClassifyItem(w, its, e, recent_threshold, historical_threshold) ==
    LET tags == Get(its[e.idx], "tags", <<>>)
        tag_pairs == Combinations2(Sorted(tags))
        w1 == [w EXCEPT !.all_edges = CounterIncAll(@, tag_pairs)]
    IN  IF Len(tags) < 2 THEN w
        ELSE IF Instant(e.time_obj) >= Instant(recent_threshold)
        THEN [w1 EXCEPT !.recent_edges = CounterIncAll(@, tag_pairs),
                        !.recent_items = Append(@, e.idx)]
        ELSE IF Instant(e.time_obj) >= Instant(historical_threshold)
        THEN [w1 EXCEPT !.historical_edges = CounterIncAll(@, tag_pairs),
                        !.historical_items = Append(@, e.idx)]
        ELSE w1

RECURSIVE ClassifyAll(_, _, _, _, _)
ClassifyAll(w, its, iwt, recent_threshold, historical_threshold) ==
    IF iwt = <<>> THEN w
    ELSE ClassifyAll(ClassifyItem(w, its, Head(iwt), recent_threshold, historical_threshold),
                     its, Tail(iwt), recent_threshold, historical_threshold)

\* Lines 119-155: the windows of a collection whose times can be compared.
Windows(its, recent_days, historical_days) ==
    LET iwt == ItemsWithTime(its, 1)
        anchor_now == MaxTime(iwt)
    IN  ClassifyAll(EmptyWindows, its, iwt,
                    MinusDays(anchor_now, recent_days),
                    MinusDays(anchor_now, recent_days + historical_days))

\* Lines 229-236: the pairs of every record, whatever its time.
RECURSIVE CountAllItems(_, _)
CountAllItems(c, its) ==
    IF its = <<>> THEN c
    ELSE LET tags == Get(Head(its), "tags", <<>>)
         IN  CountAllItems(IF Len(tags) >= 2
                           THEN CounterIncAll(c, Combinations2(Sorted(tags)))
                           ELSE c,
                           Tail(its))

\* A float that is the quotient of two integers, kept as the fraction.
Float(num, den) == [num |-> num, den |-> den]
FloatGt(x, y) == x.num * y.den > y.num * x.den

\* Line 245 with the count for the 0.0 sentinel.
FallbackEntryCountScore(pair, count) ==
    <<pair[1], pair[2], Float(count, 1),
      [total_count |-> count, fallback_reason |-> "insufficient_window_samples"]>>

\* Lines 238-245: an entry of the fallback list.
FallbackEntry(pair, count) ==
    <<pair[1], pair[2], Float(0, 1),
      [total_count |-> count, fallback_reason |-> "insufficient_window_samples"]>>

\* _fallback_top_edges(top_n, all_edges, window_stats) with both given.
FallbackTopEdges(top_n, all_edges, window_stats) ==
    LET top == MostCommon(all_edges, top_n)
    IN  [status |-> "ok",
         edges |-> [k \in 1..Len(top) |-> FallbackEntry(top[k], all_edges.cnt[top[k]])],
         window_stats |-> window_stats]

\* Line 116 handing over the counter of the records with a parseable time
\* (there is none): the fallback list is empty.
FallbackNoTimeTimedOnly(its, top_n) ==
    FallbackTopEdges(top_n, EmptyCounter,
                     [anchor_now |-> [na |-> TRUE, local |-> 0],
                      recent_count |-> 0, historical_count |-> 0,
                      total_count |-> Len(its), mode |-> "fallback"])

\* _fallback_top_edges(top_n): the counter and the statistics are made here.
FallbackNoTime(its, top_n) ==
    FallbackTopEdges(top_n, CountAllItems(EmptyCounter, its),
                     [anchor_now |-> [na |-> TRUE, local |-> 0],
                      recent_count |-> 0, historical_count |-> 0,
                      total_count |-> Len(its), mode |-> "fallback"])

\* Line 184.
Growth(recent_weight, historical_weight) ==
    Float(recent_weight - historical_weight, historical_weight + 1)

\* Line 187 without the floor on recent_weight: any growing edge qualifies.
QualifiesAnyGrowth(recent_weight, historical_weight) ==
    FloatGt(Growth(recent_weight, historical_weight), Float(0, 1))

\* Line 187.
Qualifies(recent_weight, historical_weight) ==
    /\ FloatGt(Growth(recent_weight, historical_weight), Float(0, 1))
    /\ recent_weight >= 2

\* Lines 188-193.
RisingEntry(w, edge) ==
    LET recent_weight == CounterGet(w.recent_edges, edge)
        historical_weight == CounterGet(w.historical_edges, edge)
    IN  <<edge[1], edge[2], Growth(recent_weight, historical_weight),
          [recent_count |-> recent_weight, historical_count |-> historical_weight,
           growth_rate |-> Growth(recent_weight, historical_weight)]>>

\* The set the loop of line 179 iterates over.
CandidateEdges(w) ==
    {w.recent_edges.keys[i] : i \in 1..Len(w.recent_edges.keys)}
        \cup {w.historical_edges.keys[i] : i \in 1..Len(w.historical_edges.keys)}

\* Lines 178-193: the qualifying edges in the order the set is iterated in.
RECURSIVE RisingUnsorted(_, _)
RisingUnsorted(w, order) ==
    IF order = <<>> THEN <<>>
    ELSE LET edge == Head(order)
             rest == RisingUnsorted(w, Tail(order))
         IN  IF Qualifies(CounterGet(w.recent_edges, edge),
                          CounterGet(w.historical_edges, edge))
             THEN <<RisingEntry(w, edge)>> \o rest
             ELSE rest

\* Line 196: rising_edges.sort(key=lambda x: x[2], reverse=True)
SortRising(rising_edges) ==
    LET gt == [j, i \in 1..Len(rising_edges) |->
                    FloatGt(rising_edges[j][3], rising_edges[i][3])]
    IN  StableSortDesc(rising_edges, gt)

\* Lines 157-165.
WindowStats(its, w, mode) ==
    LET iwt == ItemsWithTime(its, 1)
    IN  [anchor_now |-> [na |-> FALSE, local |-> MaxTime(iwt).local],
         recent_count |-> Len(w.recent_items),
         historical_count |-> Len(w.historical_items),
         total_count |-> Len(iwt),
         recent_edges_count |-> Len(w.recent_edges.keys),
         historical_edges_count |-> Len(w.historical_edges.keys),
         mode |-> mode]

\* Line 171 with "and" for "or": fallback only when both windows are short.
InsufficientBoth(recent_count, historical_count) ==
    recent_count < MinWindowSamples /\ historical_count < MinWindowSamples

\* Line 171.
Insufficient(recent_count, historical_count) ==
    recent_count < MinWindowSamples \/ historical_count < MinWindowSamples

\* Lines 170-210, given the windows and the order the edge set is iterated in.
Analyze(its, w, top_n, order) ==
    LET rising_edges == SortRising(RisingUnsorted(w, order))
    IN  IF Insufficient(Len(w.recent_items), Len(w.historical_items))
        THEN FallbackTopEdges(top_n, w.all_edges, WindowStats(its, w, "fallback"))
        ELSE IF rising_edges = <<>>
        THEN FallbackTopEdges(top_n, w.all_edges, WindowStats(its, w, "fallback"))
        ELSE [status |-> "ok",
              edges |-> Take(rising_edges, top_n),
              window_stats |-> WindowStats(its, w, "rising")]

\* The exception max() lets out of find_rising_edges.
Raised == [status |-> "raised", error |-> "TypeError"]

\* Every order a set can be iterated in.
RECURSIVE Orders(_)
Orders(S) ==
    IF S = {} THEN {<<>>}
    ELSE UNION {{<<x>> \o p : p \in Orders(S \ {x})} : x \in S}

----------------------------------------------------------------------------
(* PageRank *)

\* GraphAnalytics(graph=None): the analyzer was given no graph.
NoGraph == [none |-> TRUE]
IsNone(g) == "none" \in DOMAIN g

\* nx.pagerank's damping factor alpha = 0.85, as the fraction AlphaNum / AlphaDen.
AlphaNum == 17
AlphaDen == 20

\* f[1] + ... + f[n]
RECURSIVE SumTo(_, _)
SumTo(f, n) == IF n = 0 THEN 0 ELSE f[n] + SumTo(f, n - 1)

\* The determinant of a square matrix given as a sequence of rows (expansion
\* along the first row).
RECURSIVE Det(_)
Det(m) ==
    LET n == Len(m)
        Minor(j) == [r \in 1..(n - 1) |->
                        [c \in 1..(n - 1) |-> m[r + 1][IF c < j THEN c ELSE c + 1]]]
    IN  IF n = 1 THEN m[1][1]
        ELSE SumTo([j \in 1..n |->
                       (IF j % 2 = 1 THEN 1 ELSE -1) * m[1][j] * Det(Minor(j))], n)

\* The entry of the weighted adjacency matrix nx.pagerank builds of an
\* undirected graph: symmetric, a self-loop counted once on the diagonal.
Adj(g, u, v) ==
    IF <<u, v>> \in DOMAIN g.edge_w THEN g.edge_w[<<u, v>>]
    ELSE IF <<v, u>> \in DOMAIN g.edge_w THEN g.edge_w[<<v, u>>]
    ELSE 0

\* The row sum of a node: the weights of its edges.
Strength(g, u) == SumTo([j \in 1..Len(g.nodes) |-> Adj(g, u, g.nodes[j])], Len(g.nodes))

\* The weighted degree of each node in place of its PageRank.
WeightedDegree(g) ==
    [k \in 1..Len(g.nodes) |-> <<g.nodes[k], Float(Strength(g, g.nodes[k]), 1)>>]

\* nx.pagerank(graph, weight="weight"): the power iteration
\*     x = alpha * (x P + dangling(x) / N) + (1 - alpha) / N
\* over the row-normalised matrix P, started at 1/N and stopped when two
\* iterates differ by less than N * 1e-6.  Iterates differ by at most
\* 2 * alpha^k after k rounds, so the 100 rounds allowed always suffice, and
\* what is returned is the fixed point x up to that tolerance.  The fixed point
\* is computed here exactly: with x[i] = D[i] * z[i], D[i] the row sum of node
\* i (N for a node without edges), it solves the integer system
\*     AlphaDen * D[j] * z[j] - AlphaNum * SUM_i W[i][j] * z[i]
\*         = (AlphaDen - AlphaNum) / N,
\* by Cramer's rule.  The scores come as fractions with the one denominator
\* N * Det(M) > 0 (M is diagonally dominant), in the order of graph.nodes.
Pagerank(g) ==
    LET nodes == g.nodes
        n == Len(nodes)
        D(i) == IF Strength(g, nodes[i]) > 0 THEN Strength(g, nodes[i]) ELSE n
        W(i, j) == IF Strength(g, nodes[i]) > 0 THEN Adj(g, nodes[i], nodes[j]) ELSE 1
        M == [j \in 1..n |-> [i \in 1..n |->
                 (IF i = j THEN AlphaDen * D(i) ELSE 0) - AlphaNum * W(i, j)]]
        Mk(k) == [j \in 1..n |-> [i \in 1..n |-> IF i = k THEN 1 ELSE M[j][i]]]
        den == n * Det(M)
    IN  [k \in 1..n |->
            <<nodes[k], Float((AlphaDen - AlphaNum) * D(k) * Det(Mk(k)), den)>>]

\* x > y for two scores; scores of one PageRank vector share their denominator.
ScoreGt(x, y) == IF x.den = y.den THEN x.num > y.num ELSE FloatGt(x, y)

\* Line 61 without the sort: the scores in the order of the dict.
RankedUnsorted(pagerank_scores) == pagerank_scores

\* Line 61: sorted(pagerank_scores.items(), key=lambda x: x[1], reverse=True)
SortRanked(pagerank_scores) ==
    LET gt == [j, i \in 1..Len(pagerank_scores) |->
                    ScoreGt(pagerank_scores[j][2], pagerank_scores[i][2])]
    IN  StableSortDesc(pagerank_scores, gt)

\* compute_pagerank without the guard of lines 51-53: nx.pagerank(None) raises.
ComputePagerankNoGuard(g, top_n) ==
    IF IsNone(g) THEN [status |-> "raised", error |-> "AttributeError"]
    ELSE [status |-> "ok", ranked |-> Take(SortRanked(Pagerank(g)), top_n)]

\* What compute_pagerank(top_n) returns for self.graph = g.  A graph without
\* nodes is falsy, as is None.
ComputePagerankResult(g, top_n) ==
    IF IsNone(g) THEN [status |-> "ok", ranked |-> <<>>]
    ELSE IF Len(g.nodes) = 0 THEN [status |-> "ok", ranked |-> <<>>]
    ELSE [status |-> "ok", ranked |-> Take(SortRanked(Pagerank(g)), top_n)]

----------------------------------------------------------------------------
(* The crawler's store *)

\* The item_id values of a list of lines, as a set.
IdsOf(lines) == {lines[k] : k \in 1..Len(lines)}

\* _load_existing_ids: every line whose item_id is truthy joins _seen_ids; an
\* empty item_id is skipped (line 79).
LoadExistingIds(seen, lines) == seen \cup {id \in IdsOf(lines) : id # ""}

\* content_item.get("note_id", "") or "": a note without note_id has "".
NoteId(content_item) ==
    IF "note_id" \in DOMAIN content_item THEN content_item.note_id ELSE ""

\* No crawl has been started.
Idle == [phase |-> "idle", n |-> 0]

----------------------------------------------------------------------------
(* JSONL files *)

\* A line json.loads refuses (JSONDecodeError).
NotJson == [json |-> FALSE]
\* json.dumps(item, ensure_ascii=False) + "\n": the line that holds the object.
Dumps(item) == [json |-> TRUE, obj |-> item]
\* json.loads(line.strip()) of a line that holds an object.
Loads(line) == line.obj

\* A path at which no file exists, and a file with its lines.
NoFile == [exists |-> FALSE, lines |-> <<>>]
FileOf(lines) == [exists |-> TRUE, lines |-> lines]

\* The loop over the lines of one file: a line json.loads refuses is skipped.
RECURSIVE ReadItems(_)
ReadItems(lines) ==
    IF lines = <<>> THEN <<>>
    ELSE IF Head(lines).json THEN <<Loads(Head(lines))>> \o ReadItems(Tail(lines))
    ELSE ReadItems(Tail(lines))

\* [json.dumps(item) + "\n" for item in items]
DumpItems(its) == [k \in 1..Len(its) |-> Dumps(its[k])]

----------------------------------------------------------------------------
(* Packaging: deduplicate_jsonl and merge_jsonl_files *)

\* The loop of deduplicate_jsonl without the truthiness test on item_id: the
\* first item with an empty item_id and the first without one are kept too.
RECURSIVE DeduplicateAnyId(_, _, _)
DeduplicateAnyId(its, seen_ids_, unique_items) ==
    IF its = <<>> THEN unique_items
    ELSE LET item == Head(its)
             item_id == Get(item, "item_id", "None")
         IN  IF item_id \notin seen_ids_
             THEN DeduplicateAnyId(Tail(its), seen_ids_ \cup {item_id},
                                   Append(unique_items, item))
             ELSE DeduplicateAnyId(Tail(its), seen_ids_, unique_items)

\* item_id = item.get("item_id") is truthy: present and not "".
HasItemId(item) == "item_id" \in DOMAIN item /\ item.item_id # ""

\* The loop of deduplicate_jsonl (lines 267-271) over the items left, given
\* seen_ids and unique_items so far.
RECURSIVE DeduplicateLoop(_, _, _)
DeduplicateLoop(its, seen_ids_, unique_items) ==
    IF its = <<>> THEN unique_items
    ELSE LET item == Head(its)
         IN  IF HasItemId(item) /\ item.item_id \notin seen_ids_
             THEN DeduplicateLoop(Tail(its), seen_ids_ \cup {item.item_id},
                                  Append(unique_items, item))
             ELSE DeduplicateLoop(Tail(its), seen_ids_, unique_items)

\* deduplicate_jsonl(items)
DeduplicateJsonl(its) == DeduplicateLoop(its, {}, <<>>)

\* Lines 287-298: the items of the files named, in order; a path at which no
\* file exists is skipped.
RECURSIVE AllItems(_, _)
AllItems(files, file_paths) ==
    IF file_paths = <<>> THEN <<>>
    ELSE (IF files[Head(file_paths)].exists
          THEN ReadItems(files[Head(file_paths)].lines)
          ELSE <<>>) \o AllItems(files, Tail(file_paths))

----------------------------------------------------------------------------
(* The cleaner *)

\* A string of len characters that are no whitespace, with pad spaces before
\* and after it.
Text(pad, len) == [pad |-> pad, len |-> len]
\* s.strip()
Strip(s) == [s EXCEPT !.pad = 0]
\* len(s)
Length(s) == s.len + 2 * s.pad

\* The fewest characters a description keeps its note with (line 120).
MinDescLen == 10

\* A tag of more than 20 characters.
LongTag == "aaaaaaaaaaaaaaaaaaaaa"
\* re.sub of '#' and of the topic mark by '', then strip().
RemoveMarks(tag) == IF tag = "#a" THEN "a" ELSE tag
\* tag.lower()
Lower(tag) == IF tag = "A" THEN "a" ELSE tag

\* _clean_tags: the loop over the tags left, given cleaned and seen so far.
RECURSIVE CleanTagsLoop(_, _, _)
CleanTagsLoop(tags, cleaned, seen) ==
    IF tags = <<>> THEN cleaned
    ELSE LET tag == RemoveMarks(Head(tags))
         IN  IF Head(tags) = "" \/ tag = "" \/ tag = LongTag \/ Lower(tag) \in seen
             THEN CleanTagsLoop(Tail(tags), cleaned, seen)
             ELSE CleanTagsLoop(Tail(tags), Append(cleaned, tag), seen \cup {Lower(tag)})

\* _clean_tags(tags)
CleanTags(tags) == CleanTagsLoop(tags, <<>>, {})

\* _clean_item(item): whether the item passed, the reason if not, the clean
\* item and the number of raw tags if so.  Of the clean item the fields the
\* tests and the tag cleaning bear on are kept here.
CleanItem(item) ==
    LET desc == Strip(Get(item, "desc", Text(0, 0)))
        raw_tags == Get(item, "tags", <<>>)
    IN  IF Length(Strip(Get(item, "title", Text(0, 0)))) = 0
        THEN [passed |-> FALSE, reason |-> "missing_title"]
        ELSE IF Get(item, "time", "") = ""
        THEN [passed |-> FALSE, reason |-> "missing_time"]
        ELSE IF Length(desc) < MinDescLen
        THEN [passed |-> FALSE, reason |-> "desc_too_short"]
        ELSE [passed |-> TRUE,
              clean_item |-> [item_id |-> Get(item, "item_id", ""),
                              time |-> item.time,
                              title |-> Strip(item.title),
                              desc |-> desc,
                              tags |-> CleanTags(raw_tags)],
              raw_tags |-> Len(raw_tags)]

\* self.stats as __init__ makes it (lines 32-42).
NewStats ==
    [raw_count |-> 0, clean_count |-> 0, dropped_count |-> 0,
     drop_reasons |-> EmptyCounter,
     tag_stats |-> [before_clean |-> 0, after_clean |-> 0, duplicates_removed |-> 0]]

\* The loop of clean() (lines 65-71) over the items left: self.stats and
\* clean_items after it.
RECURSIVE CleanLoop(_, _, _)
CleanLoop(raw_items, st, clean_items) ==
    IF raw_items = <<>> THEN [stats |-> st, clean_items |-> clean_items]
    ELSE LET r == CleanItem(Head(raw_items))
         IN  IF r.passed
             THEN CleanLoop(Tail(raw_items),
                            [st EXCEPT
                                !.tag_stats.before_clean = @ + r.raw_tags,
                                !.tag_stats.after_clean = @ + Len(r.clean_item.tags),
                                !.tag_stats.duplicates_removed =
                                    @ + (r.raw_tags - Len(r.clean_item.tags))],
                            Append(clean_items, r.clean_item))
             ELSE CleanLoop(Tail(raw_items),
                            [st EXCEPT !.dropped_count = @ + 1,
                                       !.drop_reasons = CounterInc(@, r.reason)],
                            clean_items)

\* _load_raw_data: no file, no items.
LoadRawData(input) == IF input.exists THEN ReadItems(input.lines) ELSE <<>>

\* self.stats after clean(), and the items it saved.
CleanResult(input, st) ==
    LET raw_items == LoadRawData(input)
        looped == CleanLoop(raw_items, [st EXCEPT !.raw_count = Len(raw_items)], <<>>)
    IN  [stats |-> [looped.stats EXCEPT !.clean_count = Len(looped.clean_items)],
         clean_items |-> looped.clean_items,
         raw_items |-> raw_items]

\* _generate_report: the numbers of self.stats, and the pass rate in percent
\* (0 when nothing was read).
Report(st) ==
    [raw_count |-> st.raw_count, clean_count |-> st.clean_count,
     dropped_count |-> st.dropped_count, drop_reasons |-> st.drop_reasons,
     tag_stats |-> st.tag_stats,
     pass_rate |-> IF st.raw_count > 0 THEN Float(st.clean_count * 100, st.raw_count)
                   ELSE Float(0, 1)]

----------------------------------------------------------------------------
(* Inputs *)

TagLists ==
    { <<>>, <<"a">>, <<"c">>, <<"a", "b">>, <<"b", "a">>, <<"b", "c">>,
      <<"a", "a", "b">>, <<"c", "a", "b">> }

\* The records the builder is fed: the builder never reads "time".
BuilderRecords ==
    {[tags |-> t] : t \in TagLists} \cup {[text |-> "no tags"]}

Record(time_str, tags) == [time |-> time_str, tags |-> tags]

\* The records the analyzer is fed one by one.  With recent_days = 1 and the
\* latest record on day 3, day 2 is the first instant of the recent window and
\* day 1 lies in the historical window; day 0 lies before both windows when
\* historical_days = 1 and in the historical window when historical_days = 2.
TrendRecords ==
    { Record(IsoTime(3, "T", ""), <<"a", "a", "b">>),
      Record(IsoTime(3, "T", ""), <<"a">>),
      Record(IsoTime(3, "T", "Z"), <<"a", "b">>),
      Record(IsoTime(2, " ", ""), <<"b", "c">>),
      Record(IsoTime(1, "", ""), <<"c", "b", "a">>),
      Record(IsoTime(0, "T", ""), <<"a", "c">>),
      [tags |-> <<"a", "c">>],
      [time |-> JunkTime, tags |-> <<"b", "c">>],
      [time |-> JunkTime] }

\* n copies of one record.
Copies(rec, n) == [i \in 1..n |-> rec]

\* The collections the analyzer starts from: nothing, or a block of equal
\* records in the recent window followed by a block of equal records in the
\* historical window, each one record short of MinWindowSamples.
RecentBlocks ==
    {Copies(Record(IsoTime(3, "T", ""), t), MinWindowSamples - 1) :
        t \in {<<"a", "b">>, <<"a", "b", "c">>}}
HistoricalBlocks ==
    {Copies(Record(IsoTime(1, "T", ""), t), MinWindowSamples - 1) :
        t \in {<<"a", "b">>, <<"b", "c">>}}
StartCollections ==
    {<<>>} \cup {r \o h : r \in RecentBlocks, h \in HistoricalBlocks}

RecentDaysArgs == {1}
HistoricalDaysArgs == {1, 2}
TopNArgs == 0..MaxTopN
\* What the data file holds after it was rewritten.
ReloadCollections == {<<>>, <<[tags |-> <<"a", "b">>]>>}

\* compute_pagerank is asked for up to as many tags as there are.
PagerankTopNArgs == 0..(MaxTopN + 1)

\* The notes a crawl comes across: two with a note_id, one without.
ContentItems == {[note_id |-> "x"], [note_id |-> "y"], [title |-> "no id"]}

\* What the output file holds when the process starts: no item_id twice.
StartFiles == {<<>>, <<"x">>, <<"">>, <<"y", "x">>}

\* The objects the JSONL files of the packaging helpers hold: two with the
\* item_id "x", one with "y", one with an empty item_id and one without.
PackItems ==
    { [item_id |-> "x", n |-> 1], [item_id |-> "x", n |-> 2], [item_id |-> "y", n |-> 1],
      [item_id |-> "", n |-> 1], [n |-> 1] }
PackLines == {NotJson} \cup {Dumps(item) : item \in PackItems}
\* The input paths of merge_jsonl_files, and where it writes: over its first
\* input (as the dashboard does) or to a path of its own.
FilePathsArgs == {<<1, 2>>, <<2, 1>>, <<1, 1>>}
OutputPathArgs == {1, 3}

\* The notes the raw file of the cleaner holds.
RawItems ==
    { [item_id |-> "x", title |-> Text(1, 1), time |-> "2024-01-01", desc |-> Text(0, 10),
       tags |-> <<"#a", "A", "", "b">>],
      [item_id |-> "y", title |-> Text(0, 1), time |-> "2024-01-01", desc |-> Text(1, 9),
       tags |-> <<LongTag>>],
      [title |-> Text(2, 0), desc |-> Text(0, 3)],
      [time |-> "2024-01-01", desc |-> Text(0, 10)],
      [title |-> Text(0, 1), desc |-> Text(0, 10)],
      [title |-> Text(0, 1), time |-> "", desc |-> Text(0, 3)],
      [title |-> Text(0, 1), time |-> "2024-01-01"] }
RawLines == {NotJson} \cup {Dumps(item) : item \in RawItems}

----------------------------------------------------------------------------
(* Actions *)

NoRun == [status |-> "none"]

\* A process that starts: the class variables as reset() leaves them, no store
\* object, no crawl, and the output file as it is found.
CrawlerAtStart(lines) ==
    /\ file = lines
    /\ seen_ids = {}
    /\ instance_count = 0
    /\ stores = <<>>
    /\ run = Idle

\* No file at any path of the packaging helpers and no merge yet; a new
\* DataCleaner whose input file does not exist yet.
ToolsAtStart ==
    /\ pack = [files |-> [path \in 1..3 |-> NoFile], merged |-> NoRun, twice |-> NoRun]
    /\ cleaner = [input |-> NoFile, stats |-> NewStats, output |-> NoFile,
                  report |-> NoRun, calls |-> 0, ret |-> 0, raw_items |-> <<>>]

\* The builder and the analyzer before any call.
GraphAtStart ==
    /\ items = <<>>
    /\ loaded = 0
    /\ graph = EmptyGraph
    /\ stats = [total_tags |-> 0, total_edges |-> 0]
    /\ built = [n |-> 0, its |-> <<>>]
    /\ out = NoRun
    /\ out_prev = NoRun
    /\ ranked = NoRun
    /\ reloads = 0

Init ==
    /\ items = <<>>
    /\ loaded = 0
    /\ graph = EmptyGraph
    /\ stats = [total_tags |-> 0, total_edges |-> 0]
    /\ built = [n |-> 0, its |-> <<>>]
    /\ out = NoRun
    /\ out_prev = NoRun
    /\ ranked = NoRun
    /\ reloads = 0
    /\ CrawlerAtStart(<<>>)
    /\ ToolsAtStart

InitTrend ==
    /\ items \in StartCollections
    /\ loaded = Len(items)
    /\ graph = EmptyGraph
    /\ stats = [total_tags |-> 0, total_edges |-> 0]
    /\ built = [n |-> 0, its |-> <<>>]
    /\ out = NoRun
    /\ out_prev = NoRun
    /\ ranked = NoRun
    /\ reloads = 0
    /\ CrawlerAtStart(<<>>)
    /\ ToolsAtStart

InitCrawl ==
    /\ GraphAtStart
    /\ \E lines \in StartFiles : CrawlerAtStart(lines)
    /\ ToolsAtStart

\* The record collection grows by one record (as long as the file has not
\* been rewritten).
AddItem(rec) ==
    /\ Len(items) < loaded + MaxItems
    /\ reloads = 0
    /\ items' = Append(items, rec)
    /\ out' = NoRun
    /\ out_prev' = NoRun
    /\ ranked' = NoRun
    /\ UNCHANGED <<loaded, graph, stats, built, reloads, crawlVars, toolVars>>

\* TagCooccurrenceGraph.load_data() after the data file was rewritten: the
\* records read replace self.items (line 51); the graph object stays.
LoadData(its) ==
    /\ built.n >= 1
    /\ reloads < MaxReloads
    /\ its # items
    /\ items' = its
    /\ reloads' = reloads + 1
    /\ out' = NoRun
    /\ out_prev' = NoRun
    /\ ranked' = NoRun
    /\ UNCHANGED <<loaded, graph, stats, built, crawlVars, toolVars>>

\* TagCooccurrenceGraph.build_graph()
BuildGraph ==
    /\ graph' = BuiltGraph(graph, items)
    /\ stats' = [total_tags |-> Len(graph'.nodes),
                 total_edges |-> Cardinality(DOMAIN graph'.edge_w)]
    /\ built' = [n |-> IF built.n < 2 THEN built.n + 1 ELSE built.n, its |-> items]
    /\ items' = ItemsAfterPairing(items)
    /\ ranked' = NoRun
    /\ UNCHANGED <<loaded, out, out_prev, reloads, crawlVars, toolVars>>

\* What find_rising_edges returns (or raises), order being the order in which
\* the set of line 179 happens to be iterated.
FindRisingEdgesResult(its, recent_days, historical_days, top_n, order) ==
    LET iwt == ItemsWithTime(its, 1)
    IN  IF iwt = <<>> THEN FallbackNoTime(its, top_n)
        ELSE IF MaxRaises(iwt) THEN Raised
        ELSE Analyze(its, Windows(its, recent_days, historical_days), top_n, order)

\* The orders the set of line 179 can be iterated in: str hashes differ from
\* one interpreter process to the next.  A call that returns before line 179
\* iterates nothing.
IterationOrders(its, recent_days, historical_days) ==
    LET iwt == ItemsWithTime(its, 1)
        w == Windows(its, recent_days, historical_days)
    IN  IF iwt = <<>> \/ MaxRaises(iwt) THEN {<<>>}
        ELSE IF Insufficient(Len(w.recent_items), Len(w.historical_items)) THEN {<<>>}
        ELSE Orders(CandidateEdges(w))

\* GraphAnalytics.find_rising_edges(recent_days, historical_days, top_n).
\* On an unchanged collection the call is made at most twice, the second time
\* with the arguments of the first.
FindRisingEdges(recent_days, historical_days, top_n) ==
    LET args == <<recent_days, historical_days, top_n>>
    IN  /\ out_prev = NoRun
        /\ IF out = NoRun THEN TRUE ELSE out.args = args
        /\ \E order \in IterationOrders(items, recent_days, historical_days) :
               out' = FindRisingEdgesResult(items, recent_days, historical_days, top_n, order)
                          @@ [args |-> args]
        /\ out_prev' = out
        /\ items' = ItemsAfterPairing(items)
        /\ UNCHANGED <<loaded, graph, stats, built, ranked, reloads, crawlVars, toolVars>>

\* GraphAnalytics(graph).compute_pagerank(top_n), the analyzer holding the
\* builder's graph or none.
ComputePagerank(top_n) ==
    /\ ranked = NoRun
    /\ \E g \in {NoGraph, graph} :
           ranked' = ComputePagerankResult(g, top_n) @@ [top_n |-> top_n, g |-> g]
    /\ UNCHANGED <<items, loaded, graph, stats, built, out, out_prev, reloads, crawlVars, toolVars>>

Next ==
    \/ \E rec \in BuilderRecords : AddItem(rec)
    \/ \E its \in ReloadCollections : LoadData(its)
    \/ BuildGraph
    \/ \E top_n \in PagerankTopNArgs : ComputePagerank(top_n)

Spec == Init /\ [][Next]_vars

NextTrend ==
    \/ \E rec \in TrendRecords : AddItem(rec)
    \/ \E recent_days \in RecentDaysArgs, historical_days \in HistoricalDaysArgs,
          top_n \in TopNArgs :
           FindRisingEdges(recent_days, historical_days, top_n)

SpecTrend == InitTrend /\ [][NextTrend]_vars

\* A crawl is under way.
Running == run.phase = "running"

\* JsonlStoreImplement(output_path, append_mode).  During a crawl the store
\* factory of line 337 makes the objects, with the crawl's append_mode.
NewStore(append_mode) ==
    /\ Len(stores) < MaxStores
    /\ IF Running THEN append_mode = run.append_mode ELSE TRUE
    /\ instance_count' = instance_count + 1
    /\ IF append_mode
       THEN /\ seen_ids' = LoadExistingIds(seen_ids, file)
            /\ file' = file
       ELSE IF instance_count' = 1
       THEN /\ file' = <<>>
            /\ seen_ids' = {}
       ELSE UNCHANGED <<file, seen_ids>>
    /\ stores' = Append(stores, [append_mode |-> append_mode, item_count |-> 0])
    /\ UNCHANGED <<run, graphVars, toolVars>>

\* stores[i].store_content(content_item).  A crawl hands its notes to the
\* store objects made during it.
StoreContent(i, content_item) ==
    LET note_id == NoteId(content_item)
    IN  /\ i \in 1..Len(stores)
        /\ IF Running THEN i > run.first_store ELSE TRUE
        /\ IF note_id \in seen_ids
           THEN UNCHANGED <<file, seen_ids, stores>>
           ELSE /\ file' = Append(file, note_id)
                /\ seen_ids' = seen_ids \cup {note_id}
                /\ stores' = [stores EXCEPT ![i].item_count = @ + 1]
        /\ UNCHANGED <<instance_count, run, graphVars, toolVars>>

\* XhsBasicCrawler(append_mode=...).run() up to crawler.start(): line 250.
RunStart(append_mode) ==
    /\ ~Running
    /\ run.n < MaxRuns
    /\ run' = [phase |-> "running", n |-> run.n + 1, append_mode |-> append_mode,
               start_count |-> Cardinality(seen_ids), first_store |-> Len(stores)]
    /\ UNCHANGED <<file, seen_ids, instance_count, stores, graphVars, toolVars>>

\* The notes the store objects of the crawl have written: their item_count.
SavedInRun ==
    SumTo([k \in 1..(Len(stores) - run.first_store) |->
              stores[run.first_store + k].item_count], Len(stores) - run.first_store)

\* crawler.start() returns (line 282) or ends with an exception (line 291):
\* run() returns the growth of _seen_ids since line 250.
RunEnd(failed) ==
    /\ Running
    /\ run' = [phase |-> "done", n |-> run.n, append_mode |-> run.append_mode,
               failed |-> failed, saved |-> SavedInRun,
               ret |-> Cardinality(seen_ids) - run.start_count]
    /\ UNCHANGED <<file, seen_ids, instance_count, stores, graphVars, toolVars>>

NextCrawl ==
    \/ \E append_mode \in BOOLEAN : NewStore(append_mode)
    \/ \E i \in 1..MaxStores, content_item \in ContentItems : StoreContent(i, content_item)
    \/ \E append_mode \in BOOLEAN : RunStart(append_mode)
    \/ \E failed \in BOOLEAN : RunEnd(failed)

SpecCrawl == InitCrawl /\ [][NextCrawl]_vars

----------------------------------------------------------------------------
(* Packaging *)

\* The lines of all files of the packaging helpers.
TotalLines == SumTo([path \in 1..3 |-> Len(pack.files[path].lines)], 3)

\* An input file is made or gains a line before the merge.
AppendLine(path, line) ==
    /\ pack.merged = NoRun
    /\ TotalLines < MaxLines
    /\ pack' = [pack EXCEPT !.files[path] = FileOf(Append(@.lines, line))]
    /\ UNCHANGED <<graphVars, crawlVars, cleaner>>

\* merge_jsonl_files(file_paths, output_path)
MergeJsonlFiles(file_paths, output_path) ==
    LET all_items == AllItems(pack.files, file_paths)
        unique_items == DeduplicateJsonl(all_items)
    IN  /\ pack.merged = NoRun
        /\ pack' = [pack EXCEPT
                       !.files[output_path] = FileOf(DumpItems(unique_items)),
                       !.merged = [status |-> "ok",
                                   input |-> [k \in 1..Len(file_paths) |->
                                                 pack.files[file_paths[k]]],
                                   output_path |-> output_path,
                                   all_items |-> all_items,
                                   unique_items |-> unique_items,
                                   ret |-> Len(unique_items)]]
        /\ UNCHANGED <<graphVars, crawlVars, cleaner>>

\* deduplicate_jsonl applied to the list a merge got from it.
DeduplicateAgain ==
    /\ pack.merged # NoRun
    /\ pack.twice = NoRun
    /\ pack' = [pack EXCEPT !.twice = [status |-> "ok",
                                      unique_items |-> DeduplicateJsonl(pack.merged.unique_items)]]
    /\ UNCHANGED <<graphVars, crawlVars, cleaner>>

InitPack ==
    /\ GraphAtStart
    /\ CrawlerAtStart(<<>>)
    /\ ToolsAtStart

NextPack ==
    \/ \E path \in 1..2, line \in PackLines : AppendLine(path, line)
    \/ \E file_paths \in FilePathsArgs, output_path \in OutputPathArgs :
           MergeJsonlFiles(file_paths, output_path)
    \/ DeduplicateAgain

SpecPack == InitPack /\ [][NextPack]_vars

----------------------------------------------------------------------------
(* The cleaner *)

\* The raw file is made or gains a line.
AppendRawLine(line) ==
    /\ Len(cleaner.input.lines) < MaxLines
    /\ cleaner' = [cleaner EXCEPT !.input = FileOf(Append(@.lines, line))]
    /\ UNCHANGED <<graphVars, crawlVars, pack>>

\* DataCleaner.clean() on the one cleaner object.
Clean ==
    LET r == CleanResult(cleaner.input, cleaner.stats)
    IN  /\ cleaner.calls < MaxCleans
        /\ cleaner' = [cleaner EXCEPT
                          !.stats = r.stats,
                          !.output = FileOf(DumpItems(r.clean_items)),
                          !.report = Report(r.stats),
                          !.calls = @ + 1,
                          !.ret = r.stats.clean_count,
                          !.raw_items = r.raw_items]
        /\ UNCHANGED <<graphVars, crawlVars, pack>>

InitClean ==
    /\ GraphAtStart
    /\ CrawlerAtStart(<<>>)
    /\ ToolsAtStart

NextClean ==
    \/ \E line \in RawLines : AppendRawLine(line)
    \/ Clean

SpecClean == InitClean /\ [][NextClean]_vars

----------------------------------------------------------------------------
(* What the claims speak of *)

\* The tags of a record, as a set.
TagSet(rec) ==
    LET tags == Get(rec, "tags", <<>>) IN {tags[i] : i \in 1..Len(tags)}

\* The number of records that contain both tags.
CoCount(its, t1, t2) ==
    Cardinality({i \in 1..Len(its) : t1 \in TagSet(its[i]) /\ t2 \in TagSet(its[i])})

\* The number of records that contain the tag.
TagCount(its, t) == Cardinality({i \in 1..Len(its) : t \in TagSet(its[i])})

\* Pairs of distinct tags, in canonical order.
DistinctPairs == {p \in Tags \X Tags : Rank(p[1]) < Rank(p[2])}

EdgeWeight(g, p) == IF p \in DOMAIN g.edge_w THEN g.edge_w[p] ELSE 0
IsEdge(g, p) == p \in DOMAIN g.edge_w \/ <<p[2], p[1]>> \in DOMAIN g.edge_w

\* The graph is the one build_graph made, on a new builder, of the current records.
FreshlyBuilt == built.n = 1 /\ built.its = items
\* The latest build_graph call read the current records.
Built == built.n >= 1 /\ built.its = items

\* find_rising_edges has returned (not raised) for the current records.
Returned == out.status = "ok"
RecentDaysArg == out.args[1]
HistoricalDaysArg == out.args[2]
TopNArg == out.args[3]
\* The call computed the two windows (some record has a time that parses).
Windowed == Returned /\ ~out.window_stats.anchor_now.na
WindowsNow == Windows(items, RecentDaysArg, HistoricalDaysArg)

\* The positions of the records whose time parses, and their datetimes.
TimedNow == ItemsWithTime(items, 1)
TimedIdx == {TimedNow[k].idx : k \in 1..Len(TimedNow)}
AnchorInstant == Instant(MaxTime(TimedNow))
RecentStart == AnchorInstant - RecentDaysArg * HoursPerDay
HistoricalStart == AnchorInstant - (RecentDaysArg + HistoricalDaysArg) * HoursPerDay
\* The records of each window by their time alone.
InRecentWindow ==
    LET timed == TimedNow
        start == RecentStart
    IN  {timed[k].idx : k \in {k \in 1..Len(timed) : Instant(timed[k].time_obj) >= start}}
InHistoricalWindow ==
    LET timed == TimedNow
        start == HistoricalStart
        end == RecentStart
    IN  {timed[k].idx : k \in {k \in 1..Len(timed) :
                                   /\ Instant(timed[k].time_obj) >= start
                                   /\ Instant(timed[k].time_obj) < end}}

SeqToSet(s) == {s[k] : k \in 1..Len(s)}

\* The counter the fallback list is drawn from.
GlobalEdges ==
    IF TimedNow = <<>> THEN CountAllItems(EmptyCounter, items) ELSE WindowsNow.all_edges

\* The returned list is the top_n most frequent pairs of counter c, each with
\* score 0.0 and the fallback details.
IsTopOf(edges, c, top_n) ==
    /\ Len(edges) = (IF top_n < Len(c.keys) THEN top_n ELSE Len(c.keys))
    /\ \A k \in 1..Len(edges) :
          /\ <<edges[k][1], edges[k][2]>> \in DOMAIN c.cnt
          /\ edges[k][3].num = 0
          /\ DOMAIN edges[k][4] = {"total_count", "fallback_reason"}
          /\ edges[k][4].total_count = c.cnt[<<edges[k][1], edges[k][2]>>]
          /\ edges[k][4].fallback_reason = "insufficient_window_samples"
    /\ \A k, l \in 1..Len(edges) :
          /\ k < l => edges[k][4].total_count >= edges[l][4].total_count
          /\ k # l => <<edges[k][1], edges[k][2]>> # <<edges[l][1], edges[l][2]>>
    /\ \A p \in DOMAIN c.cnt :
          (\A k \in 1..Len(edges) : <<edges[k][1], edges[k][2]>> # p)
              => \A k \in 1..Len(edges) : c.cnt[p] <= edges[k][4].total_count

----------------------------------------------------------------------------
(* Claims *)

\* C1: whenever find_rising_edges returns for a collection in which some
\* record carries two or more tags, and top_n >= 1, the returned edge list is
\* not empty, whatever the records' times are.
C1_NonEmptyGuarantee ==
    (/\ Returned
     /\ TopNArg >= 1
     /\ \E i \in 1..Len(items) : Len(Get(items[i], "tags", <<>>)) >= 2)
        => Len(out.edges) >= 1

\* C2: one record adds at most 1 to the weight of any pair of distinct tags,
\* and exactly 1 to each pair of tags it contains: the graph built of the
\* records differs from the graph built of all but the last by at most 1 per pair.
C2_PairingCorrectness ==
    (FreshlyBuilt /\ Len(items) >= 1) =>
        LET before == BuiltGraph(EmptyGraph, SubSeq(items, 1, Len(items) - 1))
            last == items[Len(items)]
        IN  \A p \in DistinctPairs :
               LET added == EdgeWeight(graph, p) - EdgeWeight(before, p)
               IN  /\ added <= 1
                   /\ (p[1] \in TagSet(last) /\ p[2] \in TagSet(last)) => added = 1

\* C3: after build_graph, a pair of distinct tags is an edge iff some record
\* contains both tags, and the edge's weight is the number of such records.
C3_EdgeIffCooccurrence ==
    FreshlyBuilt =>
        \A p \in DistinctPairs :
            /\ IsEdge(graph, p) <=> CoCount(items, p[1], p[2]) >= 1
            /\ EdgeWeight(graph, p) = CoCount(items, p[1], p[2])

\* C4: after build_graph, the nodes are the tags seen in at least one record,
\* records with a single tag included, and a node's weight is the number of
\* records that contain the tag.
C4_NodeSetAndOccurrences ==
    FreshlyBuilt =>
        /\ SeqToSet(graph.nodes) = {t \in Tags : TagCount(items, t) >= 1}
        /\ \A t \in SeqToSet(graph.nodes) :
              t \in DOMAIN graph.node_w /\ graph.node_w[t] = TagCount(items, t)

\* C5: whenever fewer than 5 records fall in the recent window or fewer than 5
\* in the historical window (by their times, or as counted in window_stats),
\* find_rising_edges reports mode "fallback", never "rising", and returns the
\* top_n most frequent pairs of the global counter, each with score 0.0,
\* total_count and fallback_reason "insufficient_window_samples".
C5_InsufficientWindowFallback ==
    (/\ Returned
     /\ \/ TimedNow = <<>>
        \/ Cardinality(InRecentWindow) < 5
        \/ Cardinality(InHistoricalWindow) < 5
        \/ out.window_stats.recent_count < 5
        \/ out.window_stats.historical_count < 5)
        => /\ out.window_stats.mode = "fallback"
           /\ LET all_edges == GlobalEdges IN IsTopOf(out.edges, all_edges, TopNArg)

\* C5's case: the recent window holds 5 records and the historical window
\* fewer (but some), and the call returned a fallback list that is not empty.
C5_Witness ==
    /\ Windowed
    /\ out.window_stats.recent_count >= 5
    /\ out.window_stats.historical_count \in 1..4
    /\ out.window_stats.mode = "fallback"
    /\ Len(out.edges) >= 1

\* C6: when both windows hold at least 5 records and no edge qualifies as
\* rising, mode is "fallback" and the fallback reason differs from the one
\* reported when a window holds fewer than 5 records.
C6_SecondGuardReason ==
    (/\ Windowed
     /\ out.window_stats.recent_count >= 5
     /\ out.window_stats.historical_count >= 5
     /\ LET w == WindowsNow
        IN  \A p \in CandidateEdges(w) :
               ~(/\ CounterGet(w.recent_edges, p) >= 2
                 /\ CounterGet(w.recent_edges, p) > CounterGet(w.historical_edges, p)))
        => /\ out.window_stats.mode = "fallback"
           /\ \A k \in 1..Len(out.edges) :
                  out.edges[k][4].fallback_reason # "insufficient_window_samples"

\* C7: in rising mode every returned entry is an edge with growth > 0 and
\* recent_weight >= 2, its score being (recent_weight - historical_weight) /
\* (historical_weight + 1) over the window counters, and every such edge is
\* returned unless top_n cuts the list: an edge with recent_weight 1 is never
\* returned.
C7_RisingFilter ==
    (Windowed /\ out.window_stats.mode = "rising") =>
        LET w == WindowsNow
            r(p) == CounterGet(w.recent_edges, p)
            h(p) == CounterGet(w.historical_edges, p)
            rising == {p \in CandidateEdges(w) : r(p) - h(p) > 0 /\ r(p) >= 2}
            returned == {<<out.edges[k][1], out.edges[k][2]>> : k \in 1..Len(out.edges)}
        IN  /\ returned \subseteq rising
            /\ Len(out.edges) = Cardinality(returned)
            /\ Cardinality(returned) =
                  (IF TopNArg < Cardinality(rising) THEN TopNArg ELSE Cardinality(rising))
            /\ \A k \in 1..Len(out.edges) :
                  LET p == <<out.edges[k][1], out.edges[k][2]>>
                  IN  /\ out.edges[k][3].den > 0
                      /\ out.edges[k][3].num * (h(p) + 1) = (r(p) - h(p)) * out.edges[k][3].den
                      /\ out.edges[k][4].recent_count = r(p)
                      /\ out.edges[k][4].historical_count = h(p)
                      /\ out.edges[k][4].recent_count # 1

\* C7's case: an edge with recent_weight 4 and historical_weight 1 is returned
\* with growth 1.5.
C7_Witness ==
    /\ Windowed
    /\ out.window_stats.mode = "rising"
    /\ \E k \in 1..Len(out.edges) :
          /\ out.edges[k][4].recent_count = 4
          /\ out.edges[k][4].historical_count = 1
          /\ 2 * out.edges[k][3].num = 3 * out.edges[k][3].den

\* C8: two runs of find_rising_edges on the same records with the same
\* arguments return the same entries in the same order.
C8_Determinism ==
    out_prev # NoRun => out = out_prev

\* C9: a record whose time parses is in exactly one of the recent window, the
\* historical window or neither: recent if its time is at or after anchor_now -
\* recent_days, historical if in [anchor_now - recent_days - historical_days,
\* anchor_now - recent_days), and never in both.
C9_WindowPartition ==
    Windowed =>
        LET w == WindowsNow
            recent == SeqToSet(w.recent_items)
            historical == SeqToSet(w.historical_items)
        IN  /\ recent \cap historical = {}
            /\ \A i \in TimedIdx :
                  /\ i \in recent <=> i \in InRecentWindow
                  /\ i \in historical <=> i \in InHistoricalWindow

\* C10: find_rising_edges never raises, whatever mixture of missing,
\* unparseable and ISO-8601 times (with or without a timezone designator, with
\* "T" or a space) and of missing, empty, single or several tags the records have.
C10_NeverRaises ==
    out.status # "raised"

\* C11: when no record has a time that parses, find_rising_edges returns mode
\* "fallback" with anchor_now "N/A", and the edges are the top_n most frequent
\* tag pairs counted over all records, whatever their time field holds, each
\* with score 0.0.
C11_NoTimestampFallback ==
    (Returned /\ TimedNow = <<>>) =>
        /\ out.window_stats.mode = "fallback"
        /\ out.window_stats.anchor_now.na
        /\ LET all_edges == CountAllItems(EmptyCounter, items)
           IN  IsTopOf(out.edges, all_edges, TopNArg)

\* C11's case: a record without a time and a record whose time does not parse
\* both carry a tag pair, and the call returned both pairs.
C11_Witness ==
    /\ Returned
    /\ TimedNow = <<>>
    /\ \E i, j \in 1..Len(items) :
          /\ "time" \notin DOMAIN items[i]
          /\ "time" \in DOMAIN items[j]
          /\ Len(Get(items[i], "tags", <<>>)) >= 2
          /\ Len(Get(items[j], "tags", <<>>)) >= 2
    /\ Len(out.edges) = 2

\* compute_pagerank has run on graph ranked.g (or on no graph) since the graph
\* was last touched.
RankedRun == ranked # NoRun
\* It ran on a graph with at least one node and returned.
RankedGraph ==
    /\ RankedRun
    /\ ranked.status = "ok"
    /\ ~IsNone(ranked.g)
    /\ Len(ranked.g.nodes) >= 1

C13_RankedOrder ==
    RankedGraph =>
        LET r == ranked.ranked
            g == ranked.g
            scores == Pagerank(g)
            returned == {r[k][1] : k \in 1..Len(r)}
        IN  /\ Len(r) = (IF ranked.top_n < Len(g.nodes) THEN ranked.top_n ELSE Len(g.nodes))
            /\ \A k, l \in 1..Len(r) :
                  /\ k < l => ~ScoreGt(r[l][2], r[k][2])
                  /\ k # l => r[k][1] # r[l][1]
            /\ \A k \in 1..Len(r) : \E i \in 1..Len(scores) : scores[i] = r[k]
            /\ \A i \in 1..Len(scores) :
                  scores[i][1] \notin returned
                      => \A k \in 1..Len(r) : ~ScoreGt(scores[i][2], r[k][2])

\* C13's case: of three nodes the two with the highest scores are returned, and
\* the first returned is not the first node of the graph.
C13_Witness ==
    /\ RankedGraph
    /\ Len(ranked.g.nodes) = 3
    /\ ranked.top_n = 2
    /\ Len(ranked.ranked) = 2
    /\ ranked.ranked[1][1] # ranked.g.nodes[1]
    /\ ScoreGt(ranked.ranked[1][2], ranked.ranked[2][2])

\* C14: for a graph with at least one node, the scores compute_pagerank
\* returns when asked for as many tags as there are nodes are non-negative
\* and sum to 1 within 1e-6.
C14_RankNormalization ==
    (RankedGraph /\ ranked.top_n = Len(ranked.g.nodes)) =>
        LET r == ranked.ranked
            den == r[1][2].den
            total == SumTo([k \in 1..Len(r) |-> r[k][2].num], Len(r))
            diff == IF total >= den THEN total - den ELSE den - total
        IN  /\ Len(r) = Len(ranked.g.nodes)
            /\ den > 0
            /\ \A k \in 1..Len(r) : r[k][2].den = den /\ r[k][2].num >= 0
            /\ diff <= den \div 1000000

\* C14's case: all three nodes of a graph are returned and their scores are
\* not all the same.
C14_Witness ==
    /\ RankedGraph
    /\ Len(ranked.g.nodes) = 3
    /\ ranked.top_n = 3
    /\ Len(ranked.ranked) = 3
    /\ ScoreGt(ranked.ranked[1][2], ranked.ranked[3][2])

\* C15: in rising and in fallback mode find_rising_edges returns at most top_n
\* entries; in rising mode they are the first top_n of the qualifying edges
\* sorted by growth descending: min(top_n, number of qualifying edges) entries,
\* in non-increasing growth order, none left out with a growth strictly
\* greater than a returned one.
C15_TopNTruncation ==
    Returned =>
        /\ Len(out.edges) <= TopNArg
        /\ (Windowed /\ out.window_stats.mode = "rising") =>
               LET w == WindowsNow
                   r(p) == CounterGet(w.recent_edges, p)
                   h(p) == CounterGet(w.historical_edges, p)
                   qualifying == {p \in CandidateEdges(w) : r(p) - h(p) > 0 /\ r(p) >= 2}
                   returned == {<<out.edges[k][1], out.edges[k][2]>> : k \in 1..Len(out.edges)}
               IN  /\ Len(out.edges) =
                         (IF TopNArg < Cardinality(qualifying) THEN TopNArg
                          ELSE Cardinality(qualifying))
                   /\ \A k, l \in 1..Len(out.edges) :
                          k < l => ~FloatGt(out.edges[l][3], out.edges[k][3])
                   /\ \A p \in qualifying \ returned : \A k \in 1..Len(out.edges) :
                          ~FloatGt(Float(r(p) - h(p), h(p) + 1), out.edges[k][3])

\* C15's case: two edges qualify, top_n is 1, and the edge with the smaller
\* growth is cut off.
C15_Witness ==
    /\ Windowed
    /\ out.window_stats.mode = "rising"
    /\ TopNArg = 1
    /\ Len(out.edges) = 1
    /\ LET w == WindowsNow
       IN  \E p \in CandidateEdges(w) :
              /\ CounterGet(w.recent_edges, p) >= 2
              /\ FloatGt(Growth(CounterGet(w.recent_edges, p), CounterGet(w.historical_edges, p)),
                         Float(0, 1))
              /\ FloatGt(out.edges[1][3],
                         Growth(CounterGet(w.recent_edges, p), CounterGet(w.historical_edges, p)))

\* C16: whatever store objects are made and whatever notes are stored in one
\* process, starting from reset class variables and a file in which no
\* item_id occurs twice, the output file never holds two lines with the same
\* item_id.
C16_StoreDedup ==
    \A k, l \in 1..Len(file) : k # l => file[k] # file[l]

\* C17: run() returns the number of notes the crawl saved to the output file,
\* never counting lines the file held before, and never a negative number, in
\* append and in overwrite mode, whether or not the crawl ended with an
\* exception.
C17_RunReturnsSaved ==
    run.phase = "done" =>
        /\ run.ret = run.saved
        /\ run.ret >= 0

\* C18: the graph build_graph makes is simple whatever the records are,
\* records that repeat a tag included: no edge joins a tag to itself, and no
\* two edges join the same two tags.
C18_SimpleGraph ==
    FreshlyBuilt =>
        \A p \in DOMAIN graph.edge_w :
            /\ p[1] # p[2]
            /\ <<p[2], p[1]>> \notin DOMAIN graph.edge_w

\* C19: in rising mode the returned edges are in growth-descending order;
\* of two edges with equal growth the one with the greater recent_weight comes
\* first, and of two equal in both the one whose tag pair is smaller.
C19_TieBreak ==
    (Windowed /\ out.window_stats.mode = "rising") =>
        \A k, l \in 1..Len(out.edges) :
            k < l =>
                LET x == out.edges[k]
                    y == out.edges[l]
                IN  \/ FloatGt(x[3], y[3])
                    \/ /\ ~FloatGt(y[3], x[3])
                       /\ \/ x[4].recent_count > y[4].recent_count
                          \/ /\ x[4].recent_count = y[4].recent_count
                             /\ \/ Rank(x[1]) < Rank(y[1])
                                \/ Rank(x[1]) = Rank(y[1]) /\ Rank(x[2]) < Rank(y[2])

\* C20: window_stats.recent_count and historical_count are the numbers of
\* records with a parseable time that falls in the recent and in the
\* historical window, however many tags a record carries.
C20_WindowCounts ==
    Windowed =>
        /\ out.window_stats.recent_count = Cardinality(InRecentWindow)
        /\ out.window_stats.historical_count = Cardinality(InHistoricalWindow)

\* C21: after any sequence of build_graph calls between which the record
\* collection changes, the graph's nodes, edges and weights are those of a
\* build on a new builder from the current records alone: nothing of an
\* earlier collection survives.
C21_StatelessRebuild ==
    Built =>
        LET fresh == BuiltGraph(EmptyGraph, items)
        IN  /\ SeqToSet(graph.nodes) = SeqToSet(fresh.nodes)
            /\ graph.node_w = fresh.node_w
            /\ graph.edge_w = fresh.edge_w
            /\ stats = [total_tags |-> Len(fresh.nodes),
                        total_edges |-> Cardinality(DOMAIN fresh.edge_w)]

\* C22: anchor_now is the greatest time among the records whose time parses,
\* both thresholds are taken from it, and so, for recent_days >= 0, the call
\* classifies at least one record (the one at anchor_now) as recent.
C22_AnchorFromData ==
    Windowed =>
        /\ \A k \in 1..Len(TimedNow) :
               Instant(TimedNow[k].time_obj) <= AnchorInstant
        /\ \E k \in 1..Len(TimedNow) :
               TimedNow[k].time_obj.local = out.window_stats.anchor_now.local
        /\ RecentDaysArg >= 0 =>
               /\ Len(WindowsNow.recent_items) >= 1
               /\ out.window_stats.recent_count >= 1

\* C23: mode and entry shape agree.  In rising mode every returned entry has
\* a score equal to its details.growth_rate and greater than 0, a
\* recent_count of at least 2 and the details keys recent_count,
\* historical_count, growth_rate, and the list is not empty for top_n >= 1; in
\* fallback mode every entry has score 0.0, the details keys total_count and
\* fallback_reason, and a total_count of at least 1.
C23_ModeAndShape ==
    Returned =>
        /\ out.window_stats.mode \in {"rising", "fallback"}
        /\ out.window_stats.mode = "rising" =>
              /\ TopNArg >= 1 => Len(out.edges) >= 1
              /\ \A k \in 1..Len(out.edges) :
                    LET e == out.edges[k]
                    IN  /\ DOMAIN e[4] = {"recent_count", "historical_count", "growth_rate"}
                        /\ e[3] = e[4].growth_rate
                        /\ e[3].num > 0 /\ e[3].den > 0
                        /\ e[4].recent_count >= 2
        /\ out.window_stats.mode = "fallback" =>
              \A k \in 1..Len(out.edges) :
                  LET e == out.edges[k]
                  IN  /\ DOMAIN e[4] = {"total_count", "fallback_reason"}
                      /\ e[3].num = 0 /\ e[3].den > 0
                      /\ e[4].total_count >= 1

\* A call with top_n >= 1 returned entries in rising mode.
C23_Witness ==
    /\ Returned
    /\ out.window_stats.mode = "rising"
    /\ TopNArg >= 1
    /\ Len(out.edges) >= 1

\* C24: every entry (tag_a, tag_b, ...) find_rising_edges returns, in either
\* mode, has tag_a before tag_b in lexicographic order, and no unordered tag
\* pair is returned twice, repeated or swapped.
C24_CanonicalPairs ==
    Returned =>
        /\ \A k \in 1..Len(out.edges) :
               Rank(out.edges[k][1]) < Rank(out.edges[k][2])
        /\ \A k, l \in 1..Len(out.edges) :
               k # l => {out.edges[k][1], out.edges[k][2]}
                            # {out.edges[l][1], out.edges[l][2]}

\* C25: when find_rising_edges falls back after the windows were computed,
\* each returned entry's total_count is the number of records with a
\* parseable time that contain both tags, be they recent, historical or
\* older than both windows.
C25_GlobalCount ==
    (Windowed /\ out.window_stats.mode = "fallback") =>
        \A k \in 1..Len(out.edges) :
            LET e == out.edges[k]
            IN  e[4].total_count =
                    Cardinality({i \in TimedIdx : /\ e[1] \in TagSet(items[i])
                                                  /\ e[2] \in TagSet(items[i])})

\* C26: in fallback mode the returned edges are the top_n most frequent pairs
\* of the global counter: as many as top_n allows, each with its count, in
\* non-increasing total_count order, and no pair left out has a total_count
\* greater than a pair that is included.
C26_FallbackTopN ==
    (Returned /\ out.window_stats.mode = "fallback") =>
        LET c == GlobalEdges
            returned == {<<out.edges[k][1], out.edges[k][2]>> : k \in 1..Len(out.edges)}
        IN  /\ Len(out.edges) = (IF TopNArg < Len(c.keys) THEN TopNArg ELSE Len(c.keys))
            /\ Cardinality(returned) = Len(out.edges)
            /\ \A k \in 1..Len(out.edges) :
                  /\ <<out.edges[k][1], out.edges[k][2]>> \in DOMAIN c.cnt
                  /\ out.edges[k][4].total_count =
                         c.cnt[<<out.edges[k][1], out.edges[k][2]>>]
            /\ \A k \in 1..(Len(out.edges) - 1) :
                  out.edges[k][4].total_count >= out.edges[k + 1][4].total_count
            /\ \A p \in (DOMAIN c.cnt) \ returned : \A k \in 1..Len(out.edges) :
                  c.cnt[p] <= out.edges[k][4].total_count

\* C26's case: the fallback returns one pair and leaves out a less frequent
\* pair that was counted first.
C26_Witness ==
    /\ Returned
    /\ out.window_stats.mode = "fallback"
    /\ TopNArg = 1
    /\ Len(out.edges) = 1
    /\ Len(GlobalEdges.keys) >= 2
    /\ GlobalEdges.cnt[GlobalEdges.keys[1]] < out.edges[1][4].total_count

\* A step that is a build_graph, compute_pagerank or find_rising_edges call.
CoreCall ==
    \/ graph' # graph \/ built' # built
    \/ ranked' # NoRun /\ ranked = NoRun
    \/ out' # NoRun /\ (out' # out \/ out_prev' # out_prev)

C28_OverwriteClears ==
    [][(/\ Running
        /\ run'.phase = "done"
        /\ ~run.append_mode
        /\ Len(stores) > run.first_store) => Len(file') = run'.saved]_vars

\* The positions, in the list a merge handed to deduplicate_jsonl, of the
\* first item of each non-empty item_id.
FirstOfId ==
    LET all == pack.merged.all_items
        NonEmpty(i) == "item_id" \in DOMAIN all[i] /\ all[i].item_id # ""
    IN  {i \in 1..Len(all) :
            /\ NonEmpty(i)
            /\ \A j \in 1..(i - 1) : ~(NonEmpty(j) /\ all[j].item_id = all[i].item_id)}

\* The non-empty item_id values on the lines of the input files of the merge.
InputIds ==
    UNION {{f.lines[k].obj.item_id :
                k \in {k \in 1..Len(f.lines) :
                          /\ f.lines[k].json
                          /\ "item_id" \in DOMAIN f.lines[k].obj
                          /\ f.lines[k].obj.item_id # ""}} :
           f \in SeqToSet(pack.merged.input)}

\* C29: deduplicate_jsonl keeps, in input order, exactly the first item of
\* each distinct non-empty item_id and drops every item whose item_id is
\* missing or empty; the item_ids of its output are pairwise distinct;
\* applied to its own output it returns it unchanged; and merge_jsonl_files
\* returns the number of lines it wrote, which is the number of distinct
\* non-empty item_ids in its input files.
C29_DedupFirstWins ==
    pack.merged # NoRun =>
        LET all == pack.merged.all_items
            unique == pack.merged.unique_items
            Kth(k) == CHOOSE i \in FirstOfId : Cardinality({j \in FirstOfId : j <= i}) = k
        IN  /\ Len(unique) = Cardinality(FirstOfId)
            /\ \A k \in 1..Len(unique) : unique[k] = all[Kth(k)]
            /\ \A k, l \in 1..Len(unique) : k # l => unique[k].item_id # unique[l].item_id
            /\ pack.twice # NoRun => pack.twice.unique_items = unique
            /\ pack.merged.ret = Len(pack.files[pack.merged.output_path].lines)
            /\ pack.merged.ret = Cardinality(InputIds)

\* C29's case: the merge read two items with one item_id and an item with
\* an empty or no item_id, and its result went through deduplicate_jsonl again.
C29_Witness ==
    /\ pack.merged # NoRun
    /\ pack.twice # NoRun
    /\ Len(pack.merged.all_items) > Len(pack.merged.unique_items) + 1
    /\ \E i \in 1..Len(pack.merged.all_items) : ~HasItemId(pack.merged.all_items[i])
    /\ \E i \in FirstOfId, j \in 1..Len(pack.merged.all_items) :
          /\ i < j
          /\ HasItemId(pack.merged.all_items[j])
          /\ pack.merged.all_items[j].item_id = pack.merged.all_items[i].item_id
          /\ pack.merged.all_items[j] # pack.merged.all_items[i]

\* The test of the cleaner an item fails first, or "none".
FirstFailure(item) ==
    IF "title" \notin DOMAIN item \/ item.title.len = 0 THEN "missing_title"
    ELSE IF "time" \notin DOMAIN item \/ item.time = "" THEN "missing_time"
    ELSE IF "desc" \notin DOMAIN item \/ item.desc.len < MinDescLen THEN "desc_too_short"
    ELSE "none"

\* The items the latest clean() read whose first failed test is reason.
ReadWith(reason) ==
    {i \in 1..Len(cleaner.raw_items) : FirstFailure(cleaner.raw_items[i]) = reason}

\* C30: after every clean() call, a second or later call on the same
\* DataCleaner included, raw_count = clean_count + dropped_count,
\* dropped_count is the sum of the drop_reasons counts, and every raw item is
\* kept or counted under the one reason it fails first (missing_title,
\* missing_time, desc_too_short, in that order).
C30_StatsBalance ==
    cleaner.calls >= 1 =>
        LET st == cleaner.stats
            reasons == st.drop_reasons
        IN  /\ st.raw_count = st.clean_count + st.dropped_count
            /\ st.dropped_count =
                   SumTo([k \in 1..Len(reasons.keys) |-> reasons.cnt[reasons.keys[k]]],
                         Len(reasons.keys))
            /\ st.clean_count = Cardinality(ReadWith("none"))
            /\ \A reason \in {"missing_title", "missing_time", "desc_too_short"} :
                   CounterGet(reasons, reason) = Cardinality(ReadWith(reason))

====
